---- MODULE Spec2Model ----
(***************************************************************************)
(* A model of the three pure components of logback-rs (src/src/lib.rs):    *)
(*   - format          the slf4j-style template formatter                  *)
(*   - Source::reduced the logger-name compressor                          *)
(*   - LogLevel        the derived severity ordering and the i32 mapping,  *)
(*                     as used by the filter loop of examples/log_demo.rs  *)
(* Strings are sequences of one-character strings.  Every loop of the      *)
(* source is modelled one iteration per step.                              *)
(***************************************************************************)
EXTENDS Integers, Sequences, FiniteSets, TLC

VARIABLES
    \* ---- format(template, args) ----
    template,   \* the template the call was given
    args,       \* the argument slice the call was given
    fpc,        \* "idle" | "start" | "scan" | "done"
    pos,        \* index of the character the next chars.next() returns
    argi,       \* index of the argument the next args.next() returns
    message,    \* the String being built (the returned text once done)
    owned,      \* TRUE when the call returns Cow::Owned
    arm,        \* the match arm the last loop iteration took
    \* ---- Source::reduced(target) ----
    id,         \* self.0
    target,     \* the target width
    rpc,        \* "idle" | "start" | "loop" | "done" | "panicked"
    parts,      \* the non-final segments (after parts.pop())
    class,      \* the popped final segment
    idx,        \* index of the segment the for loop visits next
    res,        \* the vector of output segments
    cut,        \* characters removed so far
    replaced,   \* per visited segment: did the loop take the shortening branch
    result,     \* the returned string
    \* ---- LogLevel and the filter loop of log_demo ----
    spc,        \* "idle" | "run"
    threshold,  \* the minimum level of the consumer
    code,       \* the integer level code of the last event read
    level,      \* LogLevel::from(code) of the last event read
    admitted,   \* evt.level >= threshold for the last event read
    count,      \* events read
    shown       \* levels of the events printed, in order

fvars == <<template, args, fpc, pos, argi, message, owned, arm>>
rvars == <<id, target, rpc, parts, class, idx, res, cut, replaced, result>>
svars == <<spc, threshold, code, level, admitted, count, shown>>
vars == <<fvars, rvars, svars>>

-----------------------------------------------------------------------------
(* Bounds of the model *)
MaxTemplateLen == 7
MaxArgs == 2
MaxIdLen == 7
MaxTarget == 8
MaxEvents == 3

-----------------------------------------------------------------------------
(* Sequence helpers *)
SeqsUpTo(S, n) == UNION {[1..k -> S] : k \in 0..n}

-----------------------------------------------------------------------------
(* format: constants of the function body *)
ESC == "\\"
OPEN == "{"
CLOSE == "}"
ANCHOR == <<OPEN, CLOSE>>
NULL_STRING == <<"N","U","L","L","_","A","R","G","U","M","E","N","T","_",
                 "A","R","R","A","Y","_","E","L","E","M","E","N","T">>
NULL == <<"n","u","l","l">>

TemplateChars == {ESC, OPEN, CLOSE, "a"}
ArgValues == {<<"x">>, NULL_STRING}
Templates == SeqsUpTo(TemplateChars, MaxTemplateLen)
ArgLists == SeqsUpTo(ArgValues, MaxArgs)

\* str::contains for a two-character pattern
Contains(s, pat) == \E i \in 1..(Len(s) - 1) : s[i] = pat[1] /\ s[i + 1] = pat[2]

\* chars.peek() == Some(&ch) when the iterator stands at index p
PeekIs(p, ch) == p <= Len(template) /\ template[p] = ch

\* One loop iteration yields [pos, argi, message, arm]; pos is the index of
\* the character `c` that chars.next() returned.

\* None => message.push(ESC)
EscEnd_Swallow ==
    [pos |-> pos + 1, argi |-> argi, message |-> message, arm |-> "esc_end"]

EscEnd ==
    [pos |-> pos + 1, argi |-> argi,
     message |-> Append(message, ESC), arm |-> "esc_end"]

\* Some(OPEN) if chars.peek() == Some(&CLOSE) => message.push(OPEN)
EscAnchor ==
    [pos |-> pos + 2, argi |-> argi,
     message |-> Append(message, OPEN), arm |-> "esc_anchor"]

\* Some(c) => { message.push(ESC); message.push(c); }
EscOther_DropEsc ==
    [pos |-> pos + 2, argi |-> argi,
     message |-> Append(message, template[pos + 1]), arm |-> "esc_other"]

EscOther ==
    [pos |-> pos + 2, argi |-> argi,
     message |-> message \o <<ESC, template[pos + 1]>>, arm |-> "esc_other"]

\* ESC => match chars.next() { ... }
EscArm ==
    IF pos + 1 > Len(template) THEN EscEnd
    ELSE IF template[pos + 1] = OPEN /\ PeekIs(pos + 2, CLOSE) THEN EscAnchor
    ELSE EscOther

\* Some(NULL_STRING) => message.push_str(NULL)
ArgNull_Verbatim ==
    [pos |-> pos + 2, argi |-> argi + 1,
     message |-> message \o args[argi], arm |-> "arg_null"]

ArgNull ==
    [pos |-> pos + 2, argi |-> argi + 1,
     message |-> message \o NULL, arm |-> "arg_null"]

\* Some(a) => message.push_str(a)
ArgText ==
    [pos |-> pos + 2, argi |-> argi + 1,
     message |-> message \o args[argi], arm |-> "arg"]

\* None => { message.push_str(ANCHOR); chars.for_each(|c| message.push(c)); break; }
TooFew_NoDrain ==
    [pos |-> pos + 2, argi |-> argi,
     message |-> message \o ANCHOR, arm |-> "too_few"]

TooFew ==
    [pos |-> Len(template) + 1, argi |-> argi,
     message |-> message \o ANCHOR \o SubSeq(template, pos + 2, Len(template)),
     arm |-> "too_few"]

\* Some(&CLOSE) => { let _ = chars.next(); match args.next() { ... } }
AnchorArm ==
    IF argi <= Len(args)
    THEN IF args[argi] = NULL_STRING THEN ArgNull ELSE ArgText
    ELSE TooFew

\* OPEN => match chars.peek() { ... }
OpenArm ==
    IF PeekIs(pos + 1, CLOSE)
    THEN AnchorArm
    ELSE [pos |-> pos + 1, argi |-> argi,
          message |-> Append(message, OPEN), arm |-> "open"]

\* c => message.push(c)
PlainArm ==
    [pos |-> pos + 1, argi |-> argi,
     message |-> Append(message, template[pos]), arm |-> "plain"]

\* match c { ESC => .., OPEN => .., c => .. }
MatchChar ==
    IF template[pos] = ESC THEN EscArm
    ELSE IF template[pos] = OPEN THEN OpenArm
    ELSE PlainArm

FormatIdle ==
    /\ template = <<>> /\ args = <<>> /\ fpc = "idle" /\ pos = 1 /\ argi = 1
    /\ message = <<>> /\ owned = FALSE /\ arm = "none"

FormatInit ==
    /\ template \in Templates
    /\ args \in ArgLists
    /\ fpc = "start" /\ pos = 1 /\ argi = 1
    /\ message = <<>> /\ owned = FALSE /\ arm = "none"

\* if !args.is_empty() && template.contains("{}") { let mut message = ...
FormatEnter ==
    /\ fpc = "start"
    /\ Len(args) > 0 /\ Contains(template, ANCHOR)
    /\ fpc' = "scan"
    /\ UNCHANGED <<template, args, pos, argi, message, owned, arm>>
    /\ UNCHANGED <<rvars, svars>>

\* } else { Cow::Borrowed(template) }
FormatBorrow ==
    /\ fpc = "start"
    /\ ~(Len(args) > 0 /\ Contains(template, ANCHOR))
    /\ fpc' = "done"
    /\ message' = template
    /\ UNCHANGED <<template, args, pos, argi, owned, arm>>
    /\ UNCHANGED <<rvars, svars>>

\* while let Some(c) = chars.next() { match c { ... } }
FormatIter ==
    /\ fpc = "scan"
    /\ pos <= Len(template)
    /\ LET st == MatchChar IN
        /\ pos' = st.pos
        /\ argi' = st.argi
        /\ message' = st.message
        /\ arm' = st.arm
    /\ UNCHANGED <<template, args, fpc, owned>>
    /\ UNCHANGED <<rvars, svars>>

\* Cow::Owned(message)
FormatReturn ==
    /\ fpc = "scan"
    /\ pos > Len(template)
    /\ fpc' = "done"
    /\ owned' = TRUE
    /\ UNCHANGED <<template, args, pos, argi, message, arm>>
    /\ UNCHANGED <<rvars, svars>>

-----------------------------------------------------------------------------
(* Source::reduced *)
DOT == "."
IdChars == {"a", "b", DOT}
Identifiers == SeqsUpTo(IdChars, MaxIdLen)
Targets == 0..MaxTarget

\* str::split('.') collected into a Vec: always at least one segment
RECURSIVE Split(_)
Split(s) ==
    IF \A i \in 1..Len(s) : s[i] # DOT
    THEN <<s>>
    ELSE LET d == CHOOSE i \in 1..Len(s) :
                    s[i] = DOT /\ \A j \in 1..(i - 1) : s[j] # DOT
         IN <<SubSeq(s, 1, d - 1)>> \o Split(SubSeq(s, d + 1, Len(s)))

\* [&str]::join(".")
RECURSIVE Join(_)
Join(segs) ==
    IF Len(segs) = 0 THEN <<>>
    ELSE IF Len(segs) = 1 THEN segs[1]
    ELSE segs[1] \o <<DOT>> \o Join(Tail(segs))

\* if len - cut > target
ShouldCut_CutBelowTarget(len, c, t) == c < t

ShouldCut(len, c, t) == len - c > t

\* part.split_at(1) panics when 1 > part.len()
SplitAtPanics(part) == Len(part) < 1

\* part.split_at(1).0
FirstChar(part) == SubSeq(part, 1, 1)

\* cut += part.len() - 1
CutAmount_WholePart(part) == Len(part)

CutAmount(part) == Len(part) - 1

ReducedIdle ==
    /\ id = <<>> /\ target = 0 /\ rpc = "idle" /\ parts = <<>> /\ class = <<>>
    /\ idx = 1 /\ res = <<>> /\ cut = 0 /\ replaced = <<>> /\ result = <<>>

ReducedInit ==
    /\ id \in Identifiers
    /\ target \in Targets
    /\ rpc = "start" /\ parts = <<>> /\ class = <<>>
    /\ idx = 1 /\ res = <<>> /\ cut = 0 /\ replaced = <<>> /\ result = <<>>

\* if self.0.len() <= target { Cow::Borrowed(&self.0) }
ReducedBorrow ==
    /\ rpc = "start"
    /\ Len(id) <= target
    /\ rpc' = "done"
    /\ result' = id
    /\ UNCHANGED <<id, target, parts, class, idx, res, cut, replaced>>
    /\ UNCHANGED <<fvars, svars>>

\* else { let parts = split; let class = parts.pop().unwrap(); ...
ReducedSplit ==
    /\ rpc = "start"
    /\ ~(Len(id) <= target)
    /\ LET all == Split(id) IN
        /\ parts' = SubSeq(all, 1, Len(all) - 1)
        /\ class' = all[Len(all)]
    /\ rpc' = "loop"
    /\ UNCHANGED <<id, target, idx, res, cut, replaced, result>>
    /\ UNCHANGED <<fvars, svars>>

\* for part in parts: the shortening branch, where split_at(1) succeeds
ReducedCut ==
    /\ rpc = "loop"
    /\ idx <= Len(parts)
    /\ ShouldCut(Len(id), cut, target)
    /\ ~SplitAtPanics(parts[idx])
    /\ res' = Append(res, FirstChar(parts[idx]))
    /\ cut' = cut + CutAmount(parts[idx])
    /\ replaced' = Append(replaced, TRUE)
    /\ idx' = idx + 1
    /\ UNCHANGED <<id, target, rpc, parts, class, result>>
    /\ UNCHANGED <<fvars, svars>>

\* for part in parts: the shortening branch on an empty segment
ReducedPanic ==
    /\ rpc = "loop"
    /\ idx <= Len(parts)
    /\ ShouldCut(Len(id), cut, target)
    /\ SplitAtPanics(parts[idx])
    /\ rpc' = "panicked"
    /\ UNCHANGED <<id, target, parts, class, idx, res, cut, replaced, result>>
    /\ UNCHANGED <<fvars, svars>>

\* for part in parts: else { res.push(part) }
ReducedKeep ==
    /\ rpc = "loop"
    /\ idx <= Len(parts)
    /\ ~ShouldCut(Len(id), cut, target)
    /\ res' = Append(res, parts[idx])
    /\ replaced' = Append(replaced, FALSE)
    /\ idx' = idx + 1
    /\ UNCHANGED <<id, target, rpc, parts, class, cut, result>>
    /\ UNCHANGED <<fvars, svars>>

\* res.push(class); Cow::Owned(res.join("."))
ReducedJoin ==
    /\ rpc = "loop"
    /\ idx > Len(parts)
    /\ res' = Append(res, class)
    /\ result' = Join(res')
    /\ rpc' = "done"
    /\ UNCHANGED <<id, target, parts, class, idx, cut, replaced>>
    /\ UNCHANGED <<fvars, svars>>

\* The same loop run to completion for another width, for comparing two calls:
\* the length of reduced(target = t), or -1 when the call panics.
RECURSIVE ReducedLoopLen(_, _, _, _, _)
ReducedLoopLen(len, ps, i, c, t) ==
    IF i > Len(ps) THEN len - c
    ELSE IF ShouldCut(len, c, t)
    THEN IF SplitAtPanics(ps[i]) THEN -1
         ELSE ReducedLoopLen(len, ps, i + 1, c + CutAmount(ps[i]), t)
    ELSE ReducedLoopLen(len, ps, i + 1, c, t)

ReducedLen(s, t) ==
    IF Len(s) <= t THEN Len(s)
    ELSE LET all == Split(s)
         IN ReducedLoopLen(Len(s), SubSeq(all, 1, Len(all) - 1), 1, 0, t)

-----------------------------------------------------------------------------
(* LogLevel *)
\* enum LogLevel { Trace, Debug, Info, Warn, Error, Unknown }, in declaration order
LogLevelVariants_WarnAfterError ==
    <<"Trace", "Debug", "Info", "Error", "Warn", "Unknown">>

LogLevelVariants_UnknownFirst ==
    <<"Unknown", "Trace", "Debug", "Info", "Warn", "Error">>

LogLevelVariants == <<"Trace", "Debug", "Info", "Warn", "Error", "Unknown">>

LogLevels == {LogLevelVariants[i] : i \in 1..Len(LogLevelVariants)}

\* the discriminant #[derive(PartialOrd)] compares
Discriminant(l) == CHOOSE i \in 1..Len(LogLevelVariants) : LogLevelVariants[i] = l

\* #[derive(PartialOrd)]: partial_cmp of a field-less enum
partial_cmp(a, b) ==
    IF Discriminant(a) < Discriminant(b) THEN "Less"
    ELSE IF Discriminant(a) = Discriminant(b) THEN "Equal"
    ELSE "Greater"

lt(a, b) == partial_cmp(a, b) = "Less"
gt(a, b) == partial_cmp(a, b) = "Greater"
ge(a, b) == partial_cmp(a, b) \in {"Greater", "Equal"}

\* impl From<i32> for LogLevel
from_i32(value) ==
    CASE value = 5000 -> "Trace"
      [] value = 10000 -> "Debug"
      [] value = 20000 -> "Info"
      [] value = 30000 -> "Warn"
      [] value = 40000 -> "Error"
      [] OTHER -> "Unknown"

LevelCodes == {-1, 0, 5000, 10000, 20000, 30000, 40000, 50000}

SeverityIdle ==
    /\ spc = "idle" /\ threshold = "Info" /\ code = 0 /\ level = "Unknown"
    /\ admitted = FALSE /\ count = 0 /\ shown = <<>>

SeverityInit ==
    /\ spc = "run"
    /\ threshold \in LogLevels
    /\ code = 0 /\ level = "Unknown" /\ admitted = FALSE
    /\ count = 0 /\ shown = <<>>

\* Ok(evt) => { if evt.level >= threshold { println!(..) } count += 1; }
ReadEvent(c) ==
    /\ spc = "run"
    /\ count < MaxEvents
    /\ code' = c
    /\ level' = from_i32(c)
    /\ admitted' = ge(level', threshold)
    /\ shown' = IF admitted' THEN Append(shown, level') ELSE shown
    /\ count' = count + 1
    /\ UNCHANGED <<spc, threshold>>
    /\ UNCHANGED <<fvars, rvars>>

-----------------------------------------------------------------------------
(* Specifications: one per component, the other two idle *)
InitFormat == FormatInit /\ ReducedIdle /\ SeverityIdle
NextFormat ==
    \/ FormatEnter
    \/ FormatBorrow
    \/ FormatIter
    \/ FormatReturn
SpecFormat == InitFormat /\ [][NextFormat]_vars

InitReduced == FormatIdle /\ ReducedInit /\ SeverityIdle
NextReduced ==
    \/ ReducedBorrow
    \/ ReducedSplit
    \/ ReducedCut
    \/ ReducedPanic
    \/ ReducedKeep
    \/ ReducedJoin
SpecReduced == InitReduced /\ [][NextReduced]_vars

InitSeverity == FormatIdle /\ ReducedIdle /\ SeverityInit
NextSeverity == \E c \in LevelCodes : ReadEvent(c)
SpecSeverity == InitSeverity /\ [][NextSeverity]_vars

-----------------------------------------------------------------------------
(* Properties of format *)

\* the scan is about to read an escape marker that is the last character
AtTrailingEscape == fpc = "scan" /\ pos = Len(template) /\ PeekIs(pos, ESC)

\* the scan is about to read an escape marker that has a next character
AtEscapePair == fpc = "scan" /\ PeekIs(pos, ESC) /\ pos + 1 <= Len(template)

\* ... and that next character opens a complete "{}"
AtEscapedAnchor == AtEscapePair /\ PeekIs(pos + 1, OPEN) /\ PeekIs(pos + 2, CLOSE)

\* the scan is about to read the '{' of an unescaped "{}"
AtAnchor == fpc = "scan" /\ PeekIs(pos, OPEN) /\ PeekIs(pos + 1, CLOSE)

\* The number of unescaped anchors of the template that start before index p,
\* counted from the template alone: an escape marker hides the character
\* after it, an anchor is two characters, anything else is one.
RECURSIVE AnchorsFrom(_, _)
AnchorsFrom(i, p) ==
    IF i >= p THEN 0
    ELSE IF template[i] = ESC THEN AnchorsFrom(i + 2, p)
    ELSE IF template[i] = OPEN /\ PeekIs(i + 1, CLOSE)
    THEN 1 + AnchorsFrom(i + 2, p)
    ELSE AnchorsFrom(i + 1, p)

AnchorsBefore(p) == AnchorsFrom(1, p)

\* the text an argument renders as
Rendered(a) == IF a = NULL_STRING THEN <<"n", "u", "l", "l">> ELSE a

\* C2 as stated: an escape marker at the very end of the template is
\* swallowed, the step that reads it adds nothing to the message.
C2_TrailingEscapeSwallowed ==
    [][AtTrailingEscape => message' = message]_vars

\* C2 as amended: an escape marker at the very end of the template is kept,
\* the step that reads it appends exactly one backslash, consumes no
\* argument and ends the scan.
C2_TrailingEscapeKept ==
    [][AtTrailingEscape =>
          /\ message' = Append(message, "\\")
          /\ argi' = argi
          /\ pos' > Len(template)]_vars

C2_Witness ==
    /\ fpc = "done" /\ owned /\ arm = "esc_end"
    /\ template[Len(template)] = "\\"
    /\ message[Len(message)] = "\\"
    /\ argi > 1

\* C3: an unescaped anchor met after every argument was consumed yields the
\* text so far, then "{}", then the whole rest of the template character for
\* character; the scan ends there and the message is not touched again.
C3_TooFewArguments ==
    [][/\ (AtAnchor /\ argi > Len(args)) =>
              /\ message' = message \o <<"{", "}">>
                               \o SubSeq(template, pos + 2, Len(template))
              /\ pos' > Len(template)
       /\ (arm = "too_few") => (message' = message /\ pos' = pos)]_vars

C3_Witness ==
    /\ fpc = "done" /\ owned /\ arm = "too_few"
    /\ Len(template) >= 5 /\ Len(message) >= 5
    /\ SubSeq(template, Len(template) - 2, Len(template)) = <<"\\", "{", "}">>
    /\ SubSeq(message, Len(message) - 4, Len(message))
          = <<"{", "}", "\\", "{", "}">>

\* C4: the i-th unescaped anchor of the template (counted on the template
\* alone) is replaced by exactly the text of the i-th argument, "null" for
\* the null sentinel, for every i up to the number of arguments.
C4_PositionalArguments ==
    [][(AtAnchor /\ AnchorsBefore(pos) < Len(args)) =>
          message' = message \o Rendered(args[AnchorsBefore(pos) + 1])]_vars

C4_Witness ==
    /\ fpc = "done" /\ owned
    /\ args = <<NULL_STRING, <<"x">>>>
    /\ template = <<"\\", "{", "}", "{", "}", "{", "}">>
    /\ message = <<"{", "}", "n", "u", "l", "l", "x">>

\* C5: an escape marker followed by "{}" emits exactly "{}" (first the '{',
\* then the '}' on the next step) and consumes no argument; an escape marker
\* followed by anything else emits the backslash and that character
\* unchanged and consumes no argument.
C5_EscapedAnchorLiteral ==
    [][/\ AtEscapedAnchor =>
              (message' = Append(message, "{") /\ argi' = argi /\ pos' = pos + 2)
       /\ (fpc = "scan" /\ arm = "esc_anchor" /\ pos <= Len(template)) =>
              (message' = Append(message, "}") /\ argi' = argi /\ pos' = pos + 1)
       /\ (AtEscapePair /\ ~AtEscapedAnchor) =>
              /\ message' = message \o <<"\\", template[pos + 1]>>
              /\ argi' = argi
              /\ pos' = pos + 2]_vars

C5_Witness ==
    /\ fpc = "done" /\ owned
    /\ template = <<"\\", "{", "}", "\\", "{", "a">>
    /\ message = <<"{", "}", "\\", "{", "a">>
    /\ argi = 1

-----------------------------------------------------------------------------
(* Properties of Source::reduced *)

NonEmptySegments(s) == \A i \in 1..Len(Split(s)) : Len(Split(s)[i]) > 0

\* characters removed from the segments before the i-th, read off the result
RECURSIVE CutBefore(_, _, _)
CutBefore(o, r, i) ==
    IF i <= 1 THEN 0
    ELSE CutBefore(o, r, i - 1) + (Len(o[i - 1]) - Len(r[i - 1]))

\* C1: the call always returns, whatever the identifier and the width.
C1_ReducedTotal == rpc # "panicked"

\* C6: for an identifier without empty segments, the result for a smaller
\* width is never longer than the result for a larger width.
C6_Monotone ==
    (rpc = "done" /\ NonEmptySegments(id)) =>
        \A w2 \in 0..(MaxTarget + 1) :
            target < w2 => Len(result) <= ReducedLen(id, w2)

C6_Witness ==
    /\ rpc = "done" /\ NonEmptySegments(id) /\ Len(parts) >= 2
    /\ \E w2 \in Targets :
        /\ target < w2
        /\ Len(result) < ReducedLen(id, w2)
        /\ ReducedLen(id, w2) < Len(id)

\* C7: for every identifier with two or more segments and every width, the
\* call yields a result with the same number of segments, the same final
\* segment, and every other segment either unchanged or cut to its first
\* character.
C7_SegmentsPreserved ==
    (rpc \in {"done", "panicked"} /\ Len(Split(id)) >= 2) =>
        /\ rpc = "done"
        /\ LET o == Split(id)
               r == Split(result)
           IN /\ Len(r) = Len(o)
              /\ r[Len(r)] = o[Len(o)]
              /\ \A i \in 1..(Len(o) - 1) :
                    r[i] = o[i] \/ r[i] = SubSeq(o[i], 1, 1)

\* C9: for an identifier without empty segments that is longer than the
\* width, a segment is shortened exactly when the original length minus the
\* characters cut from earlier segments exceeds the width; the shortened
\* segments are a leading run of the non-final segments; and a result
\* longer than the width has only one-character non-final segments.
C9_FrontLoaded ==
    (rpc = "done" /\ NonEmptySegments(id) /\ Len(id) > target) =>
        LET o == Split(id)
            r == Split(result)
            n == Len(o) - 1
        IN /\ Len(r) = Len(o)
           /\ Len(replaced) = n
           /\ \A i \in 1..n :
                /\ replaced[i] <=> (Len(id) - CutBefore(o, r, i) > target)
                /\ replaced[i] => r[i] = <<o[i][1]>>
                /\ ~replaced[i] => r[i] = o[i]
                /\ \A j \in (i + 1)..n : ~replaced[i] => ~replaced[j]
           /\ Len(result) > target => \A i \in 1..n : Len(r[i]) = 1

C9_Witness ==
    /\ rpc = "done" /\ NonEmptySegments(id)
    /\ replaced = <<TRUE, FALSE>>
    /\ Len(parts[1]) > 1 /\ Len(parts[2]) > 1
    /\ Len(result) <= target /\ Len(result) < Len(id)

-----------------------------------------------------------------------------
(* Properties of LogLevel *)

NamedLevels == <<"Trace", "Debug", "Info", "Warn", "Error">>
Named == {NamedLevels[i] : i \in 1..Len(NamedLevels)}
Rank(l) == CHOOSE i \in 1..Len(NamedLevels) : NamedLevels[i] = l
NamedCodes == {5000, 10000, 20000, 30000, 40000}

\* C8: on the five named levels the comparison is the strict total order
\* Trace < Debug < Info < Warn < Error, and the filter admits a named level
\* exactly when it is at or above the threshold in that sequence.
C8_NamedOrder ==
    (count > 0 /\ level \in Named /\ threshold \in Named) =>
        /\ lt(level, threshold) <=> Rank(level) < Rank(threshold)
        /\ (level = threshold) <=> Rank(level) = Rank(threshold)
        /\ gt(level, threshold) <=> Rank(level) > Rank(threshold)
        /\ Cardinality({x \in {"lt", "eq", "gt"} :
                \/ x = "lt" /\ lt(level, threshold)
                \/ x = "eq" /\ level = threshold
                \/ x = "gt" /\ gt(level, threshold)}) = 1
        /\ admitted <=> Rank(level) >= Rank(threshold)

C8_Witness ==
    /\ count = 2 /\ threshold = "Warn"
    /\ code = 20000 /\ level = "Info" /\ ~admitted
    /\ shown = <<"Error">>

\* C10: Unknown is above every named level: a level code other than the five
\* known ones gives a level every threshold admits, and a threshold of
\* Unknown admits Unknown-level events only.
C10_UnknownGreatest ==
    count > 0 =>
        /\ code \notin NamedCodes => (level = "Unknown" /\ admitted)
        /\ (level = "Unknown" /\ threshold \in Named) => gt(level, threshold)
        /\ (threshold = "Unknown" /\ level \in Named) => lt(level, threshold)
        /\ threshold = "Unknown" => (admitted <=> level = "Unknown")

C10_Witness ==
    /\ count = 2 /\ threshold = "Unknown"
    /\ code = 40000 /\ level = "Error" /\ ~admitted
    /\ shown = <<"Unknown">>

====
